---------------------------- MODULE Spec2Model ----------------------------
(***************************************************************************)
(* A model of python/prime_finder.py: the primality oracle is_prime, the   *)
(* range scan find_primes_in_range, and the three strategies               *)
(* find_primes_sequential, find_primes_threading (thread pool, shared list *)
(* guarded by a lock) and find_primes_multiprocessing (process pool, tasks *)
(* shipped to worker processes by pickling).                               *)
(*                                                                         *)
(* One invocation is modelled per behaviour: Init chooses the function     *)
(* called and its arguments, the actions are the steps of the caller's     *)
(* thread and of the pool's workers.                                       *)
(***************************************************************************)
EXTENDS Integers, Sequences, FiniteSets, TLC

VARIABLES
    call,        \* the function the caller invoked
    n,           \* is_prime's argument
    start,       \* range start (inclusive)
    end,         \* range end (inclusive)
    num_workers, \* num_threads / num_processes
    pc,          \* position of the calling thread
    i,           \* loop variable of the chunking loop (lines 56, 78)
    ranges,      \* find_primes_multiprocessing: the list of (i, range_end)
    futures,     \* one record per submitted task, in submission order
    all_primes,  \* the result collection being assembled
    lock,        \* threading.Lock: 0 when free, else the task holding it
    k,           \* index of the future the caller is waiting on
    ret,         \* the list returned (meaningful when pc = "returned")
    verdict,     \* is_prime's return value (meaningful when pc = "returned")
    error,       \* the exception leaving the call, "none" when there is none
    errlog,      \* the tasks that raised, in the order they raised
    method,      \* main: args.method, "none" when no harness is running
    hpc,         \* position of main / benchmark_all_methods
    results,     \* the results dictionary of lines 96 and 173
    duration,    \* benchmark_all_methods: the sequential elapsed time
    output       \* the dictionary written to args.output, <<>> before

\* the state of main and benchmark_all_methods
harness == <<method, hpc, results, duration, output>>

vars == <<call, n, start, end, num_workers, pc, i, ranges, futures,
          all_primes, lock, k, ret, verdict, error, errlog, harness>>

---------------------------------------------------------------------------
(* Bounds of the model.                                                    *)

\* is_prime is evaluated on -NegN..MaxN
NegN == 6
MaxN == 180
\* the strategies are called on ranges with bounds in 0..MaxEnd
MaxEnd == 5
\* the bare range scan is called with bounds in -NegN..MaxScan
MaxScan == 30
\* worker counts are -NegWorkers..MaxWorkers
NegWorkers == 1
MaxWorkers == 3
\* at most MaxFailures worker tasks raise in one invocation
MaxFailures == 2
\* main is run on ranges with bounds in 0..MaxBenchEnd, 1..MaxBenchWorkers
\* workers, and elapsed times of 0..MaxDuration clock ticks
MaxBenchEnd == 3
MaxBenchWorkers == 2
MaxDuration == 1
\* with hanging workers, find_primes_threading is called on 0..MaxLiveEnd
MaxLiveEnd == 3

---------------------------------------------------------------------------
(* Pure functions.                                                         *)

RECURSIVE TrialDivision(_, _)

\* the loop with the bound test d * d < m, which stops short of the square root
TrialDivisionStrict(m, d) ==
    IF d * d < m
    THEN IF m % d = 0 \/ m % (d + 2) = 0
         THEN FALSE
         ELSE TrialDivision(m, d + 6)
    ELSE TRUE

\* lines 20-25: the while loop over d = 5, 11, 17, ... testing d and d + 2
TrialDivision(m, d) ==
    IF d * d <= m
    THEN IF m % d = 0 \/ m % (d + 2) = 0
         THEN FALSE
         ELSE TrialDivision(m, d + 6)
    ELSE TRUE

\* lines 11-25
is_prime(m) ==
    IF m <= 1 THEN FALSE
    ELSE IF m <= 3 THEN TRUE
    ELSE IF m % 2 = 0 \/ m % 3 = 0 THEN FALSE
    ELSE TrialDivision(m, 5)

RECURSIVE ScanFrom(_, _)
\* the list comprehension of line 29 from j on: range(j, hi + 1), filtered
ScanFrom(j, hi) ==
    IF j > hi THEN <<>>
    ELSE IF is_prime(j) THEN <<j>> \o ScanFrom(j + 1, hi)
    ELSE ScanFrom(j + 1, hi)

\* range(lo, hi) in place of range(lo, hi + 1): the upper bound is left out
ScanExclusive(lo, hi) == ScanFrom(lo, hi - 1)

\* lines 27-29
find_primes_in_range(lo, hi) == ScanFrom(lo, hi)

\* Python's floor division a // b for b # 0
FloorDiv(a, b) == IF b > 0 THEN a \div b ELSE (0 - a) \div (0 - b)

\* the chunk size with the division rounded up instead of down
ChunkSizeCeiling(lo, hi, w) ==
    IF 0 - FloorDiv(0 - (hi - lo + 1), w) < 1
    THEN 1
    ELSE 0 - FloorDiv(0 - (hi - lo + 1), w)

\* lines 42-44 and 72-74, for w # 0
chunk_size(lo, hi, w) ==
    IF FloorDiv(hi - lo + 1, w) < 1 THEN 1 ELSE FloorDiv(hi - lo + 1, w)

\* min(a, b) of lines 57 and 79
Min(a, b) == IF a <= b THEN a ELSE b

\* the chunk end without the - 1: neighbouring chunks share an integer
RangeEndOverlapping(j, lo, hi, w) == Min(j + chunk_size(lo, hi, w), hi)

\* lines 57 and 79: range_end = min(i + chunk_size - 1, end)
range_end(j, lo, hi, w) == Min(j + chunk_size(lo, hi, w) - 1, hi)

RECURSIVE Insert(_, _)
\* x put into the ascending list s, after the elements equal to it
Insert(x, s) ==
    IF s = <<>> THEN <<x>>
    ELSE IF x < Head(s) THEN <<x>> \o s
    ELSE <<Head(s)>> \o Insert(x, Tail(s))

\* no sort at all: the list as the workers left it
Unsorted(s) == s

RECURSIVE sorted(_)
\* sorted(all_primes) of lines 66 and 92: ascending, duplicates kept
sorted(s) == IF s = <<>> THEN <<>> ELSE Insert(Head(s), sorted(Tail(s)))

---------------------------------------------------------------------------
(* The invocation.                                                         *)

NoError == [type |-> "none", task |-> 0]

\* a task's position: queued in the pool, running find_primes_in_range,
\* computed (at "with lock"), locked (inside the with block), done, failed,
\* cancelled, hung (running and never to end)
Finished(f) == f.state \in {"done", "failed", "cancelled"}

\* the tasks a pool thread is executing; a task that hangs keeps its thread
Active == {t \in 1..Len(futures) :
              futures[t].state \in {"running", "computed", "locked", "hung"}}

\* lines 58 and 84: a future for the chunk (lo, hi), not yet started
NewFuture(lo, hi) ==
    [range_start |-> lo, range_end |-> hi, state |-> "queued", primes |-> <<>>]

\* the locals of call c before its first step
InitLocals(c, m, lo, hi, w) ==
    /\ call = c
    /\ n = m
    /\ start = lo
    /\ end = hi
    /\ num_workers = w
    /\ pc = "call"
    /\ i = 0
    /\ ranges = <<>>
    /\ futures = <<>>
    /\ all_primes = <<>>
    /\ lock = 0
    /\ k = 0
    /\ ret = <<>>
    /\ verdict = FALSE
    /\ error = NoError
    /\ errlog = <<>>

\* the state before the first step of call c, made by a caller other than
\* main (a test, an importing module)
InitCall(c, m, lo, hi, w) ==
    /\ InitLocals(c, m, lo, hi, w)
    /\ method = "none"
    /\ hpc = "none"
    /\ results = <<>>
    /\ duration = 0
    /\ output = <<>>

\* an exception of type e, from task t (0: from the caller's own thread),
\* leaves the call
Raise(e, t) ==
    /\ error' = [type |-> e, task |-> t]
    /\ pc' = "raised"

---------------------------------------------------------------------------
(* is_prime, find_primes_in_range and find_primes_sequential: one step.    *)

\* lines 11-25, called directly
IsPrimeCall ==
    /\ call = "is_prime"
    /\ pc = "call"
    /\ verdict' = is_prime(n)
    /\ pc' = "returned"
    /\ UNCHANGED <<harness, call, n, start, end, num_workers, i, ranges, futures,
                   all_primes, lock, k, ret, error, errlog>>

\* lines 27-29, called directly
RangeCall ==
    /\ call = "find_primes_in_range"
    /\ pc = "call"
    /\ ret' = find_primes_in_range(start, end)
    /\ pc' = "returned"
    /\ UNCHANGED <<harness, call, n, start, end, num_workers, i, ranges, futures,
                   all_primes, lock, k, verdict, error, errlog>>

\* lines 31-36
find_primes_sequential ==
    /\ call = "find_primes_sequential"
    /\ pc = "call"
    /\ ret' = find_primes_in_range(start, end)
    /\ pc' = "returned"
    /\ UNCHANGED <<harness, call, n, start, end, num_workers, i, ranges, futures,
                   all_primes, lock, k, verdict, error, errlog>>

---------------------------------------------------------------------------
(* find_primes_threading: the calling thread.                              *)

\* lines 42-44: the division raises for num_threads = 0
T_ChunkSize ==
    /\ call = "find_primes_threading"
    /\ pc = "call"
    /\ IF num_workers = 0
       THEN Raise("ZeroDivisionError", 0)
       ELSE pc' = "pool" /\ error' = error
    /\ UNCHANGED <<harness, call, n, start, end, num_workers, i, ranges, futures,
                   all_primes, lock, k, ret, verdict, errlog>>

\* a pool constructor that accepts any max_workers
T_PoolUnchecked ==
    /\ call = "find_primes_threading"
    /\ pc = "pool"
    /\ pc' = "submit"
    /\ i' = start
    /\ UNCHANGED <<harness, call, n, start, end, num_workers, ranges, futures,
                   all_primes, lock, k, ret, verdict, error, errlog>>

\* line 54: ThreadPoolExecutor(max_workers=num_threads) raises for
\* max_workers <= 0; otherwise the loop of line 56 starts at start
T_Pool ==
    /\ call = "find_primes_threading"
    /\ pc = "pool"
    /\ IF num_workers <= 0
       THEN Raise("ValueError", 0) /\ i' = i
       ELSE pc' = "submit" /\ i' = start /\ error' = error
    /\ UNCHANGED <<harness, call, n, start, end, num_workers, ranges, futures,
                   all_primes, lock, k, ret, verdict, errlog>>

\* lines 56-59: one pass of the loop over range(start, end + 1, chunk_size)
T_Submit ==
    /\ call = "find_primes_threading"
    /\ pc = "submit"
    /\ i <= end
    /\ futures' = Append(futures,
                     NewFuture(i, range_end(i, start, end, num_workers)))
    /\ i' = i + chunk_size(start, end, num_workers)
    /\ UNCHANGED <<harness, call, n, start, end, num_workers, pc, ranges,
                   all_primes, lock, k, ret, verdict, error, errlog>>

\* line 56: the range is exhausted, the loop of line 62 starts
T_SubmitDone ==
    /\ call = "find_primes_threading"
    /\ pc = "submit"
    /\ i > end
    /\ pc' = "wait"
    /\ k' = 1
    /\ UNCHANGED <<harness, call, n, start, end, num_workers, i, ranges, futures,
                   all_primes, lock, ret, verdict, error, errlog>>

\* future.done() in place of future.result(): the loop does not block
T_ResultNoWait ==
    /\ call = "find_primes_threading"
    /\ pc = "wait"
    /\ k <= Len(futures)
    /\ futures[k].state # "failed"
    /\ k' = k + 1
    /\ UNCHANGED <<harness, call, n, start, end, num_workers, pc, i, ranges, futures,
                   all_primes, lock, ret, verdict, error, errlog>>

\* lines 62-63: future.result() returns once the k-th task has completed
T_Result ==
    /\ call = "find_primes_threading"
    /\ pc = "wait"
    /\ k <= Len(futures)
    /\ futures[k].state = "done"
    /\ k' = k + 1
    /\ UNCHANGED <<harness, call, n, start, end, num_workers, pc, i, ranges, futures,
                   all_primes, lock, ret, verdict, error, errlog>>

\* the exception of the k-th task swallowed (try/except around result()): the
\* loop goes on to the next future
T_ResultSwallows ==
    /\ call = "find_primes_threading"
    /\ pc = "wait"
    /\ k <= Len(futures)
    /\ futures[k].state = "failed"
    /\ k' = k + 1
    /\ UNCHANGED <<harness, call, n, start, end, num_workers, pc, i, ranges, futures,
                   all_primes, lock, ret, verdict, error, errlog>>

\* as_completed in place of the loop in submission order: the exception
\* raised earliest in time is the one re-raised
T_ResultRaisesEarliest ==
    /\ call = "find_primes_threading"
    /\ pc = "wait"
    /\ k <= Len(futures)
    /\ futures[k].state = "failed"
    /\ error' = [type |-> "MemoryError", task |-> errlog[1]]
    /\ pc' = "exit"
    /\ UNCHANGED <<harness, call, n, start, end, num_workers, i, ranges, futures,
                   all_primes, lock, k, ret, verdict, errlog>>

\* line 63: future.result() re-raises the exception of the k-th task, which
\* takes the caller out of the loop and to the end of the with block
T_ResultRaises ==
    /\ call = "find_primes_threading"
    /\ pc = "wait"
    /\ k <= Len(futures)
    /\ futures[k].state = "failed"
    /\ error' = [type |-> "MemoryError", task |-> k]
    /\ pc' = "exit"
    /\ UNCHANGED <<harness, call, n, start, end, num_workers, i, ranges, futures,
                   all_primes, lock, k, ret, verdict, errlog>>

\* line 62: the loop over futures is exhausted
T_WaitDone ==
    /\ call = "find_primes_threading"
    /\ pc = "wait"
    /\ k > Len(futures)
    /\ pc' = "exit"
    /\ UNCHANGED <<harness, call, n, start, end, num_workers, i, ranges, futures,
                   all_primes, lock, k, ret, verdict, error, errlog>>

\* shutdown(wait=False): the end of the with block does not wait for the tasks
T_ExitNoWait ==
    /\ call = "find_primes_threading"
    /\ pc = "exit"
    /\ pc' = IF error = NoError THEN "sort" ELSE "raised"
    /\ UNCHANGED <<harness, call, n, start, end, num_workers, i, ranges, futures,
                   all_primes, lock, k, ret, verdict, error, errlog>>

\* line 54, the end of the with block: shutdown(wait=True) returns when every
\* submitted task has run; then the pending exception, if any, leaves the call
T_Exit ==
    /\ call = "find_primes_threading"
    /\ pc = "exit"
    /\ \A t \in 1..Len(futures) : Finished(futures[t])
    /\ pc' = IF error = NoError THEN "sort" ELSE "raised"
    /\ UNCHANGED <<harness, call, n, start, end, num_workers, i, ranges, futures,
                   all_primes, lock, k, ret, verdict, error, errlog>>

\* lines 65-66
T_Return ==
    /\ call = "find_primes_threading"
    /\ pc = "sort"
    /\ ret' = sorted(all_primes)
    /\ pc' = "returned"
    /\ UNCHANGED <<harness, call, n, start, end, num_workers, i, ranges, futures,
                   all_primes, lock, k, verdict, error, errlog>>

---------------------------------------------------------------------------
(* find_primes_threading: the pool's threads running worker (lines 49-52). *)

SetState(t, st) == [futures EXCEPT ![t].state = st]

\* the lock taken around the whole body of worker: the chunk is computed
\* with the lock held
W_StartLocked(t) ==
    /\ call = "find_primes_threading"
    /\ futures[t].state = "queued"
    /\ \A u \in 1..(t - 1) : futures[u].state # "queued"
    /\ Cardinality(Active) < num_workers
    /\ lock = 0
    /\ lock' = t
    /\ futures' = SetState(t, "running")
    /\ UNCHANGED <<harness, call, n, start, end, num_workers, pc, i, ranges,
                   all_primes, k, ret, verdict, error, errlog>>

\* one thread per task (threading.Thread started at submit), no pool size
W_StartUnbounded(t) ==
    /\ call = "find_primes_threading"
    /\ futures[t].state = "queued"
    /\ \A u \in 1..(t - 1) : futures[u].state # "queued"
    /\ futures' = SetState(t, "running")
    /\ UNCHANGED <<harness, call, n, start, end, num_workers, pc, i, ranges,
                   all_primes, lock, k, ret, verdict, error, errlog>>

\* line 54 (max_workers) and line 58: a pool thread takes the oldest queued
\* task; at most num_threads tasks are being executed
W_Start(t) ==
    /\ call = "find_primes_threading"
    /\ futures[t].state = "queued"
    /\ \A u \in 1..(t - 1) : futures[u].state # "queued"
    /\ Cardinality(Active) < num_workers
    /\ futures' = SetState(t, "running")
    /\ UNCHANGED <<harness, call, n, start, end, num_workers, pc, i, ranges,
                   all_primes, lock, k, ret, verdict, error, errlog>>

\* line 50: primes = find_primes_in_range(range_start, range_end)
W_Compute(t) ==
    /\ call = "find_primes_threading"
    /\ futures[t].state = "running"
    /\ futures' = [futures EXCEPT
                     ![t].state = "computed",
                     ![t].primes = find_primes_in_range(futures[t].range_start,
                                                        futures[t].range_end)]
    /\ UNCHANGED <<harness, call, n, start, end, num_workers, pc, i, ranges,
                   all_primes, lock, k, ret, verdict, error, errlog>>

\* line 50 raises (the list cannot be allocated): the task ends with the
\* exception stored in its future
W_ComputeRaises(t) ==
    /\ call = "find_primes_threading"
    /\ futures[t].state = "running"
    /\ Len(errlog) < MaxFailures
    /\ futures' = SetState(t, "failed")
    /\ errlog' = Append(errlog, t)
    /\ UNCHANGED <<harness, call, n, start, end, num_workers, pc, i, ranges,
                   all_primes, lock, k, ret, verdict, error>>

\* the with block entered without looking at the lock
W_AcquireUnguarded(t) ==
    /\ call = "find_primes_threading"
    /\ futures[t].state = "computed"
    /\ lock' = t
    /\ futures' = SetState(t, "locked")
    /\ UNCHANGED <<harness, call, n, start, end, num_workers, pc, i, ranges,
                   all_primes, k, ret, verdict, error, errlog>>

\* line 51: with lock, entered when the lock is free
W_Acquire(t) ==
    /\ call = "find_primes_threading"
    /\ futures[t].state = "computed"
    /\ lock = 0
    /\ lock' = t
    /\ futures' = SetState(t, "locked")
    /\ UNCHANGED <<harness, call, n, start, end, num_workers, pc, i, ranges,
                   all_primes, k, ret, verdict, error, errlog>>

\* all_primes = primes in place of all_primes.extend(primes): what the other
\* workers appended is lost
W_Overwrite(t) ==
    /\ call = "find_primes_threading"
    /\ futures[t].state = "locked"
    /\ all_primes' = futures[t].primes
    /\ lock' = 0
    /\ futures' = SetState(t, "done")
    /\ UNCHANGED <<harness, call, n, start, end, num_workers, pc, i, ranges,
                   k, ret, verdict, error, errlog>>

\* lock.acquire() with no release in place of the with block
W_ExtendKeepsLock(t) ==
    /\ call = "find_primes_threading"
    /\ futures[t].state = "locked"
    /\ all_primes' = all_primes \o futures[t].primes
    /\ futures' = SetState(t, "done")
    /\ UNCHANGED <<harness, call, n, start, end, num_workers, pc, i, ranges,
                   lock, k, ret, verdict, error, errlog>>

\* line 52 and the end of the with block: all_primes.extend(primes), the
\* lock is released and worker returns
W_Extend(t) ==
    /\ call = "find_primes_threading"
    /\ futures[t].state = "locked"
    /\ all_primes' = all_primes \o futures[t].primes
    /\ lock' = 0
    /\ futures' = SetState(t, "done")
    /\ UNCHANGED <<harness, call, n, start, end, num_workers, pc, i, ranges,
                   k, ret, verdict, error, errlog>>

\* line 52 raises (the list cannot grow): all_primes is left as it was, the
\* with block releases the lock and the task ends with the exception
W_ExtendRaises(t) ==
    /\ call = "find_primes_threading"
    /\ futures[t].state = "locked"
    /\ Len(errlog) < MaxFailures
    /\ futures' = SetState(t, "failed")
    /\ lock' = 0
    /\ errlog' = Append(errlog, t)
    /\ UNCHANGED <<harness, call, n, start, end, num_workers, pc, i, ranges,
                   all_primes, k, ret, verdict, error>>

---------------------------------------------------------------------------
(* find_primes_multiprocessing.                                            *)

\* line 84: the callable handed to executor.map is a lambda defined inside
\* find_primes_multiprocessing
task_fn == "lambda"

\* pickle stores a function by its qualified name, which it can do for a
\* function defined at module level and not for a lambda or a local function
Picklable(fn) == fn = "module_function"

\* lines 72-74: the division raises for num_processes = 0; otherwise the
\* loop of line 78 starts at start
M_ChunkSize ==
    /\ call = "find_primes_multiprocessing"
    /\ pc = "call"
    /\ IF num_workers = 0
       THEN Raise("ZeroDivisionError", 0) /\ i' = i
       ELSE pc' = "ranges" /\ i' = start /\ error' = error
    /\ UNCHANGED <<harness, call, n, start, end, num_workers, ranges, futures,
                   all_primes, lock, k, ret, verdict, errlog>>

\* lines 78-80: one pass of the loop over range(start, end + 1, chunk_size)
M_Range ==
    /\ call = "find_primes_multiprocessing"
    /\ pc = "ranges"
    /\ i <= end
    /\ ranges' = Append(ranges,
                    <<i, range_end(i, start, end, num_workers)>>)
    /\ i' = i + chunk_size(start, end, num_workers)
    /\ UNCHANGED <<harness, call, n, start, end, num_workers, pc, futures,
                   all_primes, lock, k, ret, verdict, error, errlog>>

\* line 78: the range is exhausted
M_RangesDone ==
    /\ call = "find_primes_multiprocessing"
    /\ pc = "ranges"
    /\ i > end
    /\ pc' = "pool"
    /\ UNCHANGED <<harness, call, n, start, end, num_workers, i, ranges, futures,
                   all_primes, lock, k, ret, verdict, error, errlog>>

\* lines 82-84: ProcessPoolExecutor(max_workers=num_processes) raises for
\* max_workers <= 0; otherwise executor.map submits one task per range, in
\* the order of ranges, and returns the iterator over their results
M_Map ==
    /\ call = "find_primes_multiprocessing"
    /\ pc = "pool"
    /\ IF num_workers <= 0
       THEN Raise("ValueError", 0) /\ UNCHANGED <<futures, k>>
       ELSE /\ futures' = [t \in 1..Len(ranges) |->
                              NewFuture(ranges[t][1], ranges[t][2])]
            /\ k' = 1
            /\ pc' = "iterate"
            /\ error' = error
    /\ UNCHANGED <<harness, call, n, start, end, num_workers, i, ranges,
                   all_primes, lock, ret, verdict, errlog>>

\* line 84: the pool sends the oldest queued task to the worker processes by
\* pickling (task_fn, chunk); pickling the lambda fails and the error is
\* stored in the task's future. No task reaches a worker process.
P_Transfer(t) ==
    /\ call = "find_primes_multiprocessing"
    /\ futures[t].state = "queued"
    /\ \A u \in 1..(t - 1) : futures[u].state # "queued"
    /\ ~Picklable(task_fn)
    /\ futures' = SetState(t, "failed")
    /\ errlog' = Append(errlog, t)
    /\ UNCHANGED <<harness, call, n, start, end, num_workers, pc, i, ranges,
                   all_primes, lock, k, ret, verdict, error>>

\* line 88: the iterator re-raises the exception of the k-th task; on its way
\* out it cancels the tasks still queued, and the caller leaves the loop for
\* the end of the with block
M_NextRaises ==
    /\ call = "find_primes_multiprocessing"
    /\ pc = "iterate"
    /\ k <= Len(futures)
    /\ futures[k].state = "failed"
    /\ error' = [type |-> "PicklingError", task |-> k]
    /\ futures' = [t \in 1..Len(futures) |->
                      IF futures[t].state = "queued"
                      THEN [futures[t] EXCEPT !.state = "cancelled"]
                      ELSE futures[t]]
    /\ pc' = "exit"
    /\ UNCHANGED <<harness, call, n, start, end, num_workers, i, ranges,
                   all_primes, lock, k, ret, verdict, errlog>>

\* line 88: the iterator is exhausted
M_NextDone ==
    /\ call = "find_primes_multiprocessing"
    /\ pc = "iterate"
    /\ k > Len(futures)
    /\ pc' = "exit"
    /\ UNCHANGED <<harness, call, n, start, end, num_workers, i, ranges, futures,
                   all_primes, lock, k, ret, verdict, error, errlog>>

\* line 82, the end of the with block: shutdown(wait=True); then the pending
\* exception, if any, leaves the call
M_Exit ==
    /\ call = "find_primes_multiprocessing"
    /\ pc = "exit"
    /\ \A t \in 1..Len(futures) : Finished(futures[t])
    /\ pc' = IF error = NoError THEN "sort" ELSE "raised"
    /\ UNCHANGED <<harness, call, n, start, end, num_workers, i, ranges, futures,
                   all_primes, lock, k, ret, verdict, error, errlog>>

\* lines 91-92
M_Return ==
    /\ call = "find_primes_multiprocessing"
    /\ pc = "sort"
    /\ ret' = sorted(all_primes)
    /\ pc' = "returned"
    /\ UNCHANGED <<harness, call, n, start, end, num_workers, i, ranges, futures,
                   all_primes, lock, k, verdict, error, errlog>>

---------------------------------------------------------------------------
(* Specifications.                                                         *)

Strategies == {"find_primes_sequential", "find_primes_threading",
               "find_primes_multiprocessing"}

\* a strategy called on a small range with a small worker count
Init ==
    \E c \in Strategies, lo \in 0..MaxEnd, hi \in 0..MaxEnd,
       w \in (0 - NegWorkers)..MaxWorkers :
        InitCall(c, 0, lo, hi, IF c = "find_primes_sequential" THEN 1 ELSE w)

Caller ==
    \/ find_primes_sequential
    \/ T_ChunkSize \/ T_Pool \/ T_Submit \/ T_SubmitDone
    \/ T_Result \/ T_ResultRaises \/ T_WaitDone \/ T_Exit \/ T_Return
    \/ M_ChunkSize \/ M_Range \/ M_RangesDone \/ M_Map
    \/ M_NextRaises \/ M_NextDone \/ M_Exit \/ M_Return

Tasks == 1..Len(futures)

Pool ==
    \/ \E t \in Tasks : W_Start(t)
    \/ \E t \in Tasks : W_Compute(t)
    \/ \E t \in Tasks : W_ComputeRaises(t)
    \/ \E t \in Tasks : W_Acquire(t)
    \/ \E t \in Tasks : W_Extend(t)
    \/ \E t \in Tasks : W_ExtendRaises(t)
    \/ \E t \in Tasks : P_Transfer(t)

Next == Caller \/ Pool

Spec == Init /\ [][Next]_vars

\* is_prime or find_primes_in_range called directly
InitPure ==
    \/ \E m \in (0 - NegN)..MaxN : InitCall("is_prime", m, 0, 0, 0)
    \/ \E lo \in (0 - NegN)..MaxScan, hi \in (0 - NegN)..MaxScan :
           InitCall("find_primes_in_range", 0, lo, hi, 0)

NextPure == IsPrimeCall \/ RangeCall

SpecPure == InitPure /\ [][NextPure]_vars

---------------------------------------------------------------------------
(* find_primes_threading with a worker that may hang, under fair           *)
(* scheduling of the threads.                                              *)

\* line 50 never returns: the thread running task t stalls for good; nothing
\* in find_primes_threading times out or cancels it
W_Hang(t) ==
    /\ call = "find_primes_threading"
    /\ futures[t].state = "running"
    /\ futures' = SetState(t, "hung")
    /\ UNCHANGED <<harness, call, n, start, end, num_workers, pc, i, ranges,
                   all_primes, lock, k, ret, verdict, error, errlog>>

\* find_primes_threading called with worker_count >= 1
InitLive ==
    \E lo \in 0..MaxLiveEnd, hi \in 0..MaxLiveEnd, w \in 1..MaxWorkers :
        InitCall("find_primes_threading", 0, lo, hi, w)

\* the steps of the calling thread (lines 38-66)
CallerThreading ==
    \/ T_ChunkSize \/ T_Pool \/ T_Submit \/ T_SubmitDone
    \/ T_Result \/ T_ResultRaises \/ T_WaitDone \/ T_Exit \/ T_Return

\* the steps of the pool's threads (lines 49-52)
PoolThreading ==
    \/ \E t \in Tasks : W_Start(t)
    \/ \E t \in Tasks : W_Compute(t)
    \/ \E t \in Tasks : W_ComputeRaises(t)
    \/ \E t \in Tasks : W_Acquire(t)
    \/ \E t \in Tasks : W_Extend(t)
    \/ \E t \in Tasks : W_ExtendRaises(t)

NextLive == CallerThreading \/ PoolThreading \/ \E t \in Tasks : W_Hang(t)

\* the scheduler lets a thread that can take a step take one in the end:
\* the calling thread and the pool's threads; a hang is not owed
SpecLive ==
    /\ InitLive
    /\ [][NextLive]_vars
    /\ WF_vars(CallerThreading)
    /\ WF_vars(PoolThreading)

---------------------------------------------------------------------------
(* main and benchmark_all_methods (lines 94-195).                          *)

\* the key of a strategy in the results dictionary
Key(c) ==
    CASE c = "find_primes_sequential" -> "sequential"
      [] c = "find_primes_threading" -> "threading"
      [] c = "find_primes_multiprocessing" -> "multiprocessing"

\* the elapsed times time.time() - start_time can come to, in clock ticks;
\* 0 when the clock has not advanced during the call
Durations == 0..MaxDuration

\* own / seq: the ratio upside down
SpeedupInverted(seq, own) == <<own, seq>>

\* lines 115 and 127: duration / duration_thread, kept as numerator and
\* denominator (own # 0)
Speedup(seq, own) == <<seq, own>>

\* lines 101-105 and 174-178: a record without speedup
Record(found, elapsed, w) ==
    [primes_found |-> found, execution_time |-> elapsed, workers |-> w]

\* lines 111-116 and 123-128: a record with speedup
RecordWithSpeedup(found, elapsed, w, seq) ==
    [primes_found |-> found, execution_time |-> elapsed, workers |-> w,
     speedup |-> Speedup(seq, elapsed)]

\* lines 153-157 and 179-183
Configuration ==
    [start_range |-> start, end_range |-> end, cpu_count |-> "os.cpu_count()"]

\* lines 110 and 122: the next strategy is called, with fresh locals
CallStrategy(c) ==
    /\ call' = c
    /\ pc' = "call"
    /\ i' = 0
    /\ ranges' = <<>>
    /\ futures' = <<>>
    /\ all_primes' = <<>>
    /\ lock' = 0
    /\ k' = 0
    /\ ret' = <<>>
    /\ error' = NoError
    /\ errlog' = <<>>

\* lines 100-110: the sequential strategy has returned (primes, duration);
\* its record is stored and find_primes_threading is called
B_Sequential ==
    /\ method = "all"
    /\ hpc = "strategy"
    /\ call = "find_primes_sequential"
    /\ pc = "returned"
    /\ \E d \in Durations :
          /\ duration' = d
          /\ results' = ("sequential" :> Record(Len(ret), d, 1))
    /\ CallStrategy("find_primes_threading")
    /\ UNCHANGED <<n, start, end, num_workers, verdict, method, hpc, output>>

\* lines 110-122: find_primes_threading has returned; its record is stored
\* with the speedup, whose division raises when the elapsed time is 0.0, and
\* find_primes_multiprocessing is called
B_Threading ==
    /\ method = "all"
    /\ hpc = "strategy"
    /\ call = "find_primes_threading"
    /\ pc = "returned"
    /\ \E d \in Durations :
          IF d = 0
          THEN /\ hpc' = "failed"
               /\ error' = [type |-> "ZeroDivisionError", task |-> 0]
               /\ UNCHANGED <<call, pc, i, ranges, futures, all_primes, lock,
                              k, ret, errlog, results>>
          ELSE /\ results' = ("threading" :>
                                 RecordWithSpeedup(Len(ret), d, num_workers,
                                                   duration)) @@ results
               /\ CallStrategy("find_primes_multiprocessing")
               /\ hpc' = hpc
    /\ UNCHANGED <<n, start, end, num_workers, verdict, method, duration,
                   output>>

\* lines 122-132: find_primes_multiprocessing has returned; its record is
\* stored with the speedup and benchmark_all_methods returns results
B_Multiprocessing ==
    /\ method = "all"
    /\ hpc = "strategy"
    /\ call = "find_primes_multiprocessing"
    /\ pc = "returned"
    /\ \E d \in Durations :
          IF d = 0
          THEN /\ hpc' = "failed"
               /\ error' = [type |-> "ZeroDivisionError", task |-> 0]
               /\ results' = results
          ELSE /\ results' = ("multiprocessing" :>
                                 RecordWithSpeedup(Len(ret), d, num_workers,
                                                   duration)) @@ results
               /\ hpc' = "benchmarked"
               /\ error' = error
    /\ UNCHANGED <<call, n, start, end, num_workers, pc, i, ranges, futures,
                   all_primes, lock, k, ret, verdict, errlog, method,
                   duration, output>>

\* lines 150-157: main adds the configuration to what
\* benchmark_all_methods returned
Main_Configuration ==
    /\ method = "all"
    /\ hpc = "benchmarked"
    /\ results' = ("configuration" :> Configuration) @@ results
    /\ hpc' = "done"
    /\ UNCHANGED <<call, n, start, end, num_workers, pc, i, ranges, futures,
                   all_primes, lock, k, ret, verdict, error, errlog, method,
                   duration, output>>

\* lines 161-184: the one strategy selected has returned; main builds its
\* record, with workers = 1 for the sequential strategy, and the configuration
Main_Single ==
    /\ method \in {"sequential", "threading", "multiprocessing"}
    /\ hpc = "strategy"
    /\ Key(call) = method
    /\ pc = "returned"
    /\ \E d \in Durations :
          results' = (method :> Record(Len(ret), d,
                                       IF method = "sequential" THEN 1
                                       ELSE num_workers))
                     @@ ("configuration" :> Configuration)
    /\ hpc' = "done"
    /\ UNCHANGED <<call, n, start, end, num_workers, pc, i, ranges, futures,
                   all_primes, lock, k, ret, verdict, error, errlog, method,
                   duration, output>>

\* a benchmark that catches the exception of a strategy and returns the
\* records it has so far
Main_RaisesCaught ==
    /\ hpc = "strategy"
    /\ pc = "raised"
    /\ hpc' = IF method = "all" THEN "benchmarked" ELSE "failed"
    /\ UNCHANGED <<call, n, start, end, num_workers, pc, i, ranges, futures,
                   all_primes, lock, k, ret, verdict, error, errlog, method,
                   results, duration, output>>

\* lines 100, 110, 122, 164-170: the strategy called has raised; nothing
\* catches the exception, which leaves benchmark_all_methods and main
Main_Raises ==
    /\ hpc = "strategy"
    /\ pc = "raised"
    /\ hpc' = "failed"
    /\ UNCHANGED <<call, n, start, end, num_workers, pc, i, ranges, futures,
                   all_primes, lock, k, ret, verdict, error, errlog, method,
                   results, duration, output>>

\* lines 191-195: json.dump(results, f)
Main_Write ==
    /\ hpc = "done"
    /\ output' = results
    /\ hpc' = "written"
    /\ UNCHANGED <<call, n, start, end, num_workers, pc, i, ranges, futures,
                   all_primes, lock, k, ret, verdict, error, errlog, method,
                   results, duration>>

\* lines 149-150 and 161-170: the strategy main calls first
FirstCall(m) ==
    CASE m = "all" -> "find_primes_sequential"
      [] m = "sequential" -> "find_primes_sequential"
      [] m = "threading" -> "find_primes_threading"
      [] m = "multiprocessing" -> "find_primes_multiprocessing"

\* lines 136-150: main run with --method m on a small range
InitMain ==
    \E m \in {"all", "sequential", "threading", "multiprocessing"},
       lo \in 0..MaxBenchEnd, hi \in 0..MaxBenchEnd, w \in 1..MaxBenchWorkers :
        /\ InitLocals(FirstCall(m), 0, lo, hi, w)
        /\ method = m
        /\ hpc = "strategy"
        /\ results = <<>>
        /\ duration = 0
        /\ output = <<>>

Main ==
    \/ B_Sequential \/ B_Threading \/ B_Multiprocessing
    \/ Main_Configuration \/ Main_Single \/ Main_Raises \/ Main_Write

NextMain == Main \/ Caller \/ Pool

SpecMain == InitMain /\ [][NextMain]_vars

---------------------------------------------------------------------------
(* Properties.                                                             *)

Range(s) == {s[x] : x \in 1..Len(s)}

StrictlyAscending(s) == \A a, b \in 1..Len(s) : a < b => s[a] < s[b]

FanOut == {"find_primes_threading", "find_primes_multiprocessing"}

\* what find_primes_sequential returns for the range of this invocation
SequentialPrimes == find_primes_in_range(start, end)

\* the chunks generated so far, as (chunk_start, chunk_end)
Chunks ==
    IF call = "find_primes_threading"
    THEN [t \in 1..Len(futures) |->
             <<futures[t].range_start, futures[t].range_end>>]
    ELSE ranges

\* the chunking loop has run to its end
ChunkingDone ==
    \/ call = "find_primes_threading"
       /\ pc \in {"wait", "exit", "sort", "returned", "raised"}
    \/ call = "find_primes_multiprocessing"
       /\ pc \in {"pool", "iterate", "exit", "sort", "returned", "raised"}

\* C1: for every worker_count >= 1, whatever the interleaving of the worker
\* tasks, the list find_primes_threading returns holds exactly the primes
\* find_primes_sequential returns for the same range: the same set and the
\* same length, so that no prime is lost or duplicated.
C1_ThreadingEqualsSequential ==
    (call = "find_primes_threading" /\ pc = "returned") =>
        /\ Range(ret) = Range(SequentialPrimes)
        /\ Len(ret) = Len(SequentialPrimes)

\* find_primes_threading has returned three primes or more, from more chunks
\* than there are threads, appended in an order that is not chunk order
C1_Witness ==
    /\ call = "find_primes_threading"
    /\ pc = "returned"
    /\ Len(futures) > num_workers
    /\ num_workers >= 2
    /\ Len(ret) >= 3
    /\ all_primes # ret

\* C2: for every worker_count >= 1, an invocation of
\* find_primes_multiprocessing that has ended has returned exactly the
\* primes find_primes_sequential returns for the same range.
C2_MultiprocessingEqualsSequential ==
    (/\ call = "find_primes_multiprocessing"
     /\ num_workers >= 1
     /\ pc \in {"returned", "raised"}) =>
        /\ pc = "returned"
        /\ Range(ret) = Range(SequentialPrimes)
        /\ Len(ret) = Len(SequentialPrimes)

\* C3: for start <= end and worker_count >= 1 the chunks generated so far
\* start at start, are non-empty, lie in [start, end] and each begins right
\* after the one before it (ascending, contiguous, non-overlapping); once the
\* chunking loop has ended every integer of [start, end] lies in exactly one.
C3_PartitionCoverage ==
    (call \in FanOut /\ start <= end /\ num_workers >= 1) =>
        /\ \A t \in 1..Len(Chunks) :
              /\ start <= Chunks[t][1]
              /\ Chunks[t][1] <= Chunks[t][2]
              /\ Chunks[t][2] <= end
              /\ Chunks[t][1] = IF t = 1 THEN start ELSE Chunks[t - 1][2] + 1
        /\ ChunkingDone =>
              \A x \in start..end :
                 Cardinality({t \in 1..Len(Chunks) :
                                 Chunks[t][1] <= x /\ x <= Chunks[t][2]}) = 1

\* the chunking loop has ended with three chunks or more, the last one
\* shorter than the first
C3_Witness ==
    /\ call \in FanOut
    /\ num_workers >= 1
    /\ ChunkingDone
    /\ Len(Chunks) >= 3
    /\ Chunks[Len(Chunks)][2] - Chunks[Len(Chunks)][1]
          < Chunks[1][2] - Chunks[1][1]

\* C4: when find_primes_threading reads the shared collection (sorts and
\* returns it), the chunking loop has submitted every chunk and every
\* submitted task has completed: none is queued, computing, waiting for the
\* lock or inside the append.
C4_ReadAfterJoin ==
    (call = "find_primes_threading" /\ pc \in {"sort", "returned"}) =>
        /\ i > end
        /\ \A t \in 1..Len(futures) : futures[t].state = "done"

\* the collection has been read after three tasks or more, run by two
\* threads or more
C4_Witness ==
    /\ call = "find_primes_threading"
    /\ pc = "returned"
    /\ num_workers >= 2
    /\ Len(futures) >= 3
    /\ \A t \in 1..Len(futures) : futures[t].state = "done"

\* the task holding the lock is inside its with block, and no other task is
LockInv ==
    \A t \in 1..Len(futures) : (futures[t].state = "locked") <=> (lock = t)

\* a step that changes the shared collection is the append of the task that
\* holds the lock
LockedAppend ==
    all_primes' # all_primes =>
        /\ lock \in 1..Len(futures)
        /\ futures[lock].state = "locked"
        /\ all_primes' = all_primes \o futures[lock].primes

\* C5: in find_primes_threading at most one worker is inside the append step
\* in any state, that worker holds the lock, and every change of the shared
\* collection is the append of the worker holding the lock.
C5_LockProtectsCollection == [](LockInv) /\ [][LockedAppend]_vars

\* one task is inside the append step with primes to append while another
\* has computed its primes and waits for the lock
C5_Witness ==
    \E t, u \in 1..Len(futures) :
        /\ futures[t].state = "locked"
        /\ futures[t].primes # <<>>
        /\ futures[u].state = "computed"
        /\ lock = t

\* once a worker task has raised, the invocation does not return a list, and
\* when it has ended the caller holds the exception of a task that raised
ErrorReachesCaller ==
    (call \in FanOut /\ errlog # <<>>) =>
        /\ pc \notin {"sort", "returned"}
        /\ ret = <<>>
        /\ pc = "raised" => error.task \in Range(errlog)

\* a task that has ended is not run again and no task is added for it
NoRetry ==
    /\ \A t \in 1..Len(futures) :
          Finished(futures[t]) =>
              (t \in 1..Len(futures') /\ futures'[t] = futures[t])
    /\ \A t \in 1..Len(errlog) : errlog'[t] = errlog[t]

\* C6: if a worker task of a fan-out strategy raises, the invocation returns
\* no prime list, not even a partial one; the error reaches the caller, and
\* no chunk is executed a second time.
C6_ErrorAbortsStrategy == [](ErrorReachesCaller) /\ [][NoRetry]_vars

\* find_primes_threading has ended with the exception of a task although
\* other tasks had appended their primes
C6_Witness ==
    /\ call = "find_primes_threading"
    /\ pc = "raised"
    /\ errlog # <<>>
    /\ all_primes # <<>>
    /\ error.task \in Range(errlog)

\* C7: the list a fan-out strategy returns is strictly ascending, whatever
\* order the worker tasks appended or returned their chunk results in.
C7_ReturnedListAscending ==
    (call \in FanOut /\ pc = "returned") => StrictlyAscending(ret)

\* find_primes_threading has returned although the workers had appended
\* a larger prime before a smaller one
C7_Witness ==
    /\ call = "find_primes_threading"
    /\ pc = "returned"
    /\ \E a, b \in 1..Len(all_primes) : a < b /\ all_primes[a] > all_primes[b]

\* a worker thread of find_primes_threading ran out of memory
WorkerRanOutOfMemory == call = "find_primes_threading" /\ errlog # <<>>

\* C8: for start > end, and for ranges holding no prime, every strategy
\* called with worker_count >= 1 returns an empty list and raises no error
\* (unless a worker ran out of memory); with start > end the fan-out
\* strategies generate no chunk and dispatch no task.
C8_EmptyRangeReturnsEmpty ==
    (/\ call \in Strategies
     /\ num_workers >= 1
     /\ SequentialPrimes = <<>>
     /\ ~WorkerRanOutOfMemory) =>
        /\ pc # "raised"
        /\ pc = "returned" => ret = <<>>
        /\ start > end => (futures = <<>> /\ ranges = <<>>)

\* m >= 2 and no d with 2 <= d < m divides m
IsPrimeRef(m) == m >= 2 /\ \A d \in 2..(m - 1) : m % d # 0

\* C9: is_prime(n) is true exactly when n >= 2 and no integer d with
\* 2 <= d < n divides n, for every n of -NegN..MaxN.
C9_OracleCorrect ==
    (call = "is_prime" /\ pc = "returned") => (verdict <=> IsPrimeRef(n))

\* is_prime has rejected the square of a prime above 10, which only the last
\* pass of the loop, with d * d = n or (d + 2) * (d + 2) = n, can do
C9_Witness ==
    /\ call = "is_prime"
    /\ pc = "returned"
    /\ ~verdict
    /\ \E d \in 11..MaxN : d * d = n /\ IsPrimeRef(d)

\* C10: for start <= end, find_primes_in_range(start, end) is strictly
\* ascending, each of its elements passes is_prime and lies in [start, end],
\* and every integer of [start, end] that passes is_prime is in it.
C10_RangeScanCorrect ==
    (call = "find_primes_in_range" /\ pc = "returned" /\ start <= end) =>
        /\ StrictlyAscending(ret)
        /\ \A x \in Range(ret) : is_prime(x) /\ start <= x /\ x <= end
        /\ \A x \in start..end : is_prime(x) => x \in Range(ret)

\* find_primes_in_range has returned five primes or more from a range that
\* begins above 1 and ends on a prime
C10_Witness ==
    /\ call = "find_primes_in_range"
    /\ pc = "returned"
    /\ start > 1
    /\ Len(ret) >= 5
    /\ ret[Len(ret)] = end

\* the records of the strategies in the results dictionary
RecordKeys == DOMAIN results \ {"configuration"}

NonSequential == {"threading", "multiprocessing"}

\* the record of a non-sequential strategy carries
\* speedup = sequential elapsed / its own elapsed
CarriesSpeedup(key) ==
    /\ "speedup" \in DOMAIN results[key]
    /\ "sequential" \in DOMAIN results
    /\ results[key].speedup = <<results["sequential"].execution_time,
                                results[key].execution_time>>

\* the sequential record carries no speedup and has workers = 1
SequentialRecordPlain ==
    "sequential" \in DOMAIN results =>
        /\ "speedup" \notin DOMAIN results["sequential"]
        /\ results["sequential"].workers = 1

\* a record entering the dictionary counts the list its strategy returned
CountsReturnedList ==
    \A key \in (DOMAIN results') \ (DOMAIN results) :
        key # "configuration" => results'[key].primes_found = Len(ret)

\* C11 as stated: every record of a non-sequential strategy carries the
\* speedup, whichever way main is run; the sequential record carries none
\* and has workers = 1.
C11_EveryRecordCarriesSpeedup ==
    /\ \A key \in RecordKeys \cap NonSequential : CarriesSpeedup(key)
    /\ SequentialRecordPlain

\* with --method all the records of the non-sequential strategies carry
\* the speedup; with one strategy selected no record carries a speedup
SpeedupOnlyInBenchmark ==
    /\ method = "all" =>
          \A key \in RecordKeys \cap NonSequential : CarriesSpeedup(key)
    /\ method # "all" =>
          \A key \in RecordKeys : "speedup" \notin DOMAIN results[key]
    /\ SequentialRecordPlain

\* C11, amended: a record of a non-sequential strategy carries
\* speedup = sequential_elapsed / strategy_elapsed when main runs all the
\* strategies (benchmark_all_methods) and carries no speedup when one
\* strategy is selected; the sequential record carries no speedup and has
\* workers = 1; each record's primes_found is the length of the list its
\* strategy returned.
C11_SpeedupOnlyInBenchmark ==
    [](SpeedupOnlyInBenchmark) /\ [][CountsReturnedList]_vars

\* benchmark_all_methods has stored the threading record of a run that
\* found two primes or more and took longer than the sequential run
C11_Witness ==
    /\ method = "all"
    /\ "threading" \in DOMAIN results
    /\ results["threading"].primes_found >= 2
    /\ results["threading"].speedup = <<0, 1>>

\* C12: in find_primes_multiprocessing every task handed to the pool is
\* transferable to a worker process: no task fails on the transfer.
C12_TasksTransferable ==
    call = "find_primes_multiprocessing" =>
        \A t \in 1..Len(futures) : futures[t].state # "failed"

\* the caller of find_primes_threading holds the exception of a task and is
\* at the end of the with block
FailureCaught ==
    /\ call = "find_primes_threading"
    /\ pc = "exit"
    /\ error # NoError

\* C13 as stated: when the caller has caught the failure of a task, the
\* exception can leave find_primes_threading at once: the end of the with
\* block does not wait for the other tasks.
C13_ImmediatePropagation == FailureCaught => ENABLED T_Exit

\* C13, amended: when a worker task of find_primes_threading fails, the
\* exception reaches the caller only after every submitted task, queued ones
\* included, has run to its end (done or failed): the end of the with block
\* waits for them and cancels none.
C13_PropagationAfterAllTasks ==
    (call = "find_primes_threading" /\ pc = "raised" /\ error.task # 0) =>
        \A t \in 1..Len(futures) : futures[t].state \in {"done", "failed"}

\* the first task has failed and the exception has reached the caller after
\* the other tasks, more of them than there are threads, had run and appended
C13_Witness ==
    /\ call = "find_primes_threading"
    /\ pc = "raised"
    /\ error.task = 1
    /\ Len(futures) > num_workers + 1
    /\ \A t \in 2..Len(futures) : futures[t].state = "done"
    /\ all_primes # <<>>

\* the smallest element of a non-empty set of integers
Lowest(S) == CHOOSE x \in S : \A y \in S : x <= y

\* C14 as stated: the exception the caller receives is the one raised
\* earliest in time among the failing tasks.
C14_EarliestErrorPropagates ==
    (call \in FanOut /\ pc = "raised" /\ errlog # <<>>) =>
        error.task = errlog[1]

\* C14, amended: when more than one task fails, the exception the caller
\* receives is that of the failed task submitted first (lowest in dispatch
\* order), whether or not it was raised earliest in time.
C14_FirstSubmittedErrorPropagates ==
    (call \in FanOut /\ pc = "raised" /\ errlog # <<>>) =>
        error.task = Lowest(Range(errlog))

\* two tasks of find_primes_threading have failed, the one submitted later
\* first, and the caller has received the exception of the other
C14_Witness ==
    /\ call = "find_primes_threading"
    /\ pc = "raised"
    /\ Len(errlog) = 2
    /\ errlog[1] > errlog[2]
    /\ error.task = errlog[2]

\* the lock is held only by a task inside its with block, whose prime list
\* is complete; a task that is queued or computing does not hold it
LockOnlyAroundAppend ==
    /\ \A t \in 1..Len(futures) :
          futures[t].state \in {"queued", "running"} => lock # t
    /\ lock # 0 =>
          /\ lock \in 1..Len(futures)
          /\ futures[lock].state = "locked"
          /\ futures[lock].primes =
                find_primes_in_range(futures[lock].range_start,
                                     futures[lock].range_end)

\* the lock is taken by a task that has computed its primes, and the step
\* that ends the append gives it back
AcquireAfterCompute ==
    /\ (lock' # lock /\ lock' # 0) =>
          (lock' \in 1..Len(futures) /\ futures[lock'].state = "computed")
    /\ \A t \in 1..Len(futures) :
          (futures[t].state = "locked" /\ futures'[t].state # "locked")
              => lock' = 0

\* C15: in find_primes_threading a worker never holds the lock while it
\* evaluates the oracle over its chunk: the lock is acquired only after the
\* chunk's prime list is complete and is released right after the append, so
\* that chunk computations can overlap in time.
C15_LockNotHeldWhileComputing ==
    [](call = "find_primes_threading" => LockOnlyAroundAppend)
    /\ [][call = "find_primes_threading" => AcquireAfterCompute]_vars

\* two tasks are computing their chunks at the same time while a third is
\* inside the append
C15_Witness ==
    \E t, u, v \in 1..Len(futures) :
        /\ t # u
        /\ futures[t].state = "running"
        /\ futures[u].state = "running"
        /\ futures[v].state = "locked"
        /\ lock = v

\* every chunk has been handed to the pool
DispatchDone ==
    \/ call = "find_primes_threading"
       /\ pc \in {"wait", "exit", "sort", "returned", "raised"}
    \/ call = "find_primes_multiprocessing"
       /\ pc \in {"iterate", "exit", "sort", "returned", "raised"}

\* C16: in a fan-out strategy called with worker_count >= 1 no two tasks
\* have the same chunk; once dispatch is over every integer of [start, end]
\* is in the chunk of exactly one task; at most worker_count tasks are
\* executing in any state; and when the strategy returns every task has been
\* executed.
C16_OneTaskPerChunkBoundedPool ==
    (call \in FanOut /\ num_workers >= 1) =>
        /\ \A t, u \in 1..Len(futures) :
              t # u => futures[t].range_start # futures[u].range_start
        /\ DispatchDone =>
              \A x \in start..end :
                 Cardinality({t \in 1..Len(futures) :
                                 /\ futures[t].range_start <= x
                                 /\ x <= futures[t].range_end}) = 1
        /\ Cardinality(Active) <= num_workers
        /\ pc = "returned" =>
              \A t \in 1..Len(futures) : futures[t].state = "done"

\* there are more chunks than threads: every thread of the pool is executing
\* a task while another task waits in the queue
C16_Witness ==
    /\ call = "find_primes_threading"
    /\ num_workers >= 2
    /\ Len(futures) > num_workers
    /\ Cardinality(Active) = num_workers
    /\ \E t \in 1..Len(futures) : futures[t].state = "queued"

\* a task of this invocation hangs
Hung == \E t \in 1..Len(futures) : futures[t].state = "hung"

\* the invocation has ended, with a list or with an exception
Ended == pc \in {"returned", "raised"}

\* C17: under fair scheduling an invocation of find_primes_threading with
\* worker_count >= 1 ends in every run in which no dispatched task hangs,
\* whatever the number of chunks (no deadlock on the lock or the pool); and
\* once a task hangs the invocation never ends.
C17_EndsUnlessATaskHangs == <>(Ended \/ Hung) /\ [](Hung => ~Ended)

\* the caller waits for the result of a task that hangs, after all the other
\* tasks, two or more, have completed
C17_Witness ==
    /\ pc = "wait"
    /\ k \in 1..Len(futures)
    /\ futures[k].state = "hung"
    /\ Len(futures) >= 3
    /\ \A t \in 1..Len(futures) : t # k => futures[t].state = "done"

\* C18: a fan-out strategy called with worker_count <= 0 dispatches no task
\* and never reaches its final sort or returns a list; when it ends it ends
\* in an error raised by the calling thread itself (ZeroDivisionError for 0,
\* ValueError for a negative count), not by a task.
C18_NonPositiveWorkersRaise ==
    (call \in FanOut /\ num_workers <= 0) =>
        /\ futures = <<>>
        /\ pc \notin {"sort", "returned"}
        /\ Ended => /\ pc = "raised"
                    /\ error.type \in {"ZeroDivisionError", "ValueError"}
                    /\ error.task = 0

\* find_primes_multiprocessing with a negative worker_count has clamped the
\* chunk size to 1 and built its ranges, and ends in the pool's ValueError
C18_Witness ==
    /\ call = "find_primes_multiprocessing"
    /\ num_workers < 0
    /\ Len(ranges) >= 2
    /\ futures = <<>>
    /\ pc = "raised"
    /\ error.type = "ValueError"

\* the number of integers in chunk t
ChunkLen(t) == Chunks[t][2] - Chunks[t][1] + 1

\* max(1, floor(N / w)) for the N integers of [start, end], w >= 1
FullChunk ==
    IF (end - start + 1) \div num_workers >= 1
    THEN (end - start + 1) \div num_workers
    ELSE 1

\* C19: in a fan-out strategy called with worker_count w >= 1 on a range of
\* N = end - start + 1 >= 1 integers, once chunking is over every chunk but
\* the last holds max(1, floor(N / w)) integers, the last holds between 1 and
\* that many, and there are N chunks when w > N and between w and 2w - 1
\* chunks otherwise.
C19_ChunkSizesAndCount ==
    (call \in FanOut /\ num_workers >= 1 /\ start <= end /\ ChunkingDone) =>
        /\ Len(Chunks) >= 1
        /\ \A t \in 1..(Len(Chunks) - 1) : ChunkLen(t) = FullChunk
        /\ ChunkLen(Len(Chunks)) \in 1..FullChunk
        /\ IF num_workers > end - start + 1
           THEN Len(Chunks) = end - start + 1
           ELSE /\ Len(Chunks) >= num_workers
                /\ Len(Chunks) <= 2 * num_workers - 1

\* more chunks than workers: 2w - 1 chunks for w >= 2 workers, the last one
\* shorter than the others
C19_Witness ==
    /\ call \in FanOut
    /\ num_workers >= 2
    /\ start <= end
    /\ ChunkingDone
    /\ Len(Chunks) = 2 * num_workers - 1
    /\ ChunkLen(Len(Chunks)) < FullChunk

RECURSIVE DispatchOrderMerge(_)
\* the primes of the chunks t, t + 1, ... one chunk after the other
DispatchOrderMerge(t) ==
    IF t > Len(ranges)
    THEN <<>>
    ELSE find_primes_in_range(ranges[t][1], ranges[t][2])
            \o DispatchOrderMerge(t + 1)

\* C20: an invocation of find_primes_multiprocessing with worker_count >= 1
\* on a non-empty range ends by returning; the list it has flattened is the
\* per-chunk lists in dispatch order, is strictly ascending, and is what the
\* final sort returns.
C20_MergedInDispatchOrder ==
    (/\ call = "find_primes_multiprocessing"
     /\ num_workers >= 1
     /\ start <= end
     /\ Ended) =>
        /\ pc = "returned"
        /\ all_primes = DispatchOrderMerge(1)
        /\ StrictlyAscending(all_primes)
        /\ ret = all_primes

\* the strategies benchmark_all_methods has called so far, given the one it
\* is in, and the records it holds at that point or one record later
BenchmarkOrder ==
    method = "all" =>
        /\ call = "find_primes_sequential" =>
              RecordKeys = {}
        /\ call = "find_primes_threading" =>
              RecordKeys \in {{"sequential"}, {"sequential", "threading"}}
        /\ call = "find_primes_multiprocessing" =>
              RecordKeys \in {{"sequential", "threading"},
                              {"sequential", "threading", "multiprocessing"}}

\* the call failed: benchmark_all_methods has not returned to main, which
\* has added no configuration and written nothing
NothingWritten ==
    hpc = "failed" => /\ output = <<>>
                      /\ "configuration" \notin DOMAIN results

\* what main writes with --method all holds the records of all three
\* strategies
AllOrNothing ==
    (method = "all" /\ output # <<>>) =>
        {"sequential", "threading", "multiprocessing"} \subseteq DOMAIN output

\* the strategies are called in the order sequential, threading,
\* multiprocessing
NextStrategy ==
    (method = "all" /\ call' # call) =>
        <<call, call'>> \in
            {<<"find_primes_sequential", "find_primes_threading">>,
             <<"find_primes_threading", "find_primes_multiprocessing">>}

\* a failed call stays failed
FailureIsFinal ==
    hpc = "failed" => /\ hpc' = "failed"
                      /\ output' = output
                      /\ results' = results

\* C21: benchmark_all_methods calls the strategies in the order sequential,
\* threading, multiprocessing, each after the record of the one before is
\* stored; when a strategy raises (or a speedup division does) the call
\* fails for good: it does not return to main, no file is written although
\* records of earlier strategies had been stored, and a file written with
\* --method all holds the records of all three strategies.
C21_BenchmarkFailsAsAWhole ==
    /\ [](BenchmarkOrder /\ NothingWritten /\ AllOrNothing)
    /\ [][NextStrategy /\ FailureIsFinal]_vars

\* find_primes_multiprocessing has raised after the sequential and threading
\* records, with a prime or more found, were stored: the call has failed and
\* nothing is written
C21_Witness ==
    /\ method = "all"
    /\ hpc = "failed"
    /\ call = "find_primes_multiprocessing"
    /\ pc = "raised"
    /\ RecordKeys = {"sequential", "threading"}
    /\ results["threading"].primes_found >= 1
    /\ output = <<>>

===========================================================================
